---- MODULE Spec2Model ----
(***************************************************************************)
(* system-stats-dashboard: the rolling stats history (StatsHistory), its   *)
(* iterator, the dashboard built from it, and the update thread that       *)
(* feeds it (UpdatingStatsHistory) with its consolidation of batches       *)
(* (consolidate_all_stats) and its two-file persistence (persist_stats).   *)
(*                                                                         *)
(* Indices are 0-based as in the Rust source; a Vec v is a sequence and    *)
(* v[i] of the source is At(v, i).  Option<T> is a sequence of length 0    *)
(* (None) or 1 (Some).  A panic of the source is the value Panic(kind).    *)
(***************************************************************************)
EXTENDS Integers, Sequences, FiniteSets, TLC

(***************************************************************************)
(* Bounds of the model.                                                    *)
(***************************************************************************)
MaxCap == 4        \* history_size ranges over 1..MaxCap
MaxOps == 5        \* push / update_most_recent_stats calls of one run
MaxLoad == 3       \* lines found on disk by load_from
ExtraYield == 2    \* items an iteration may yield beyond max_size before the model stops it
MaxSamples == 5    \* snapshots the update thread samples in one run
MaxLimit == 2      \* consolidation_limit ranges over 1..MaxLimit
MaxLoopCap == 3    \* history_size of the update thread ranges over 1..MaxLoopCap
SizeLimit == 40    \* size_limit of the persistence configuration, in bytes
MaxBatch == 3      \* snapshots in a batch handed to consolidate_all_stats alone
MaxAppends == 4    \* persist_stats calls on a directory of its own
MaxFileLines == 2  \* lines of each file of a directory handed to load_from alone

VARIABLES
    history,       \* StatsHistory: [max_size, stats, most_recent_index]
    iter,          \* Option<StatsHistoryIterator>: <<>> or <<[index, done]>>
    yielded,       \* the items the live iterator has returned so far
    fault,         \* None, or Some(kind) once a call has panicked
    dashboard,     \* Option of the last DashboardContext built
    clock,         \* the time of the latest snapshot taken
    origin,        \* "new" or "load": how the history was constructed
    pushes,        \* every snapshot passed to push, in call order
    updates,       \* number of update_most_recent_stats calls
    last_op,       \* the last write made to the history: the call and its argument
    pc,            \* update thread: the statement it is about to execute
    recent_stats,  \* update thread: the batch of raw snapshots
    new_stats,     \* update thread: Option of the snapshot just sampled
    consolidated_stats, \* update thread: Option of the batch's consolidation
    lock,          \* owner of the Mutex around the shared history
    dir,           \* the persistence directory
    reader,        \* the reader: its position and what it read
    config,        \* the update thread's parameters
    sampled,       \* update thread: every raw snapshot sampled so far, in order
    appended       \* every snapshot a persist_stats call has written, in call order

histVars == <<history, fault, clock>>
harnessVars == <<iter, yielded, dashboard, origin, pushes, updates, last_op>>
loopVars == <<pc, recent_stats, new_stats, consolidated_stats, lock, dir, reader,
              config, sampled, appended>>
vars == <<history, fault, clock, iter, yielded, dashboard, origin, pushes,
          updates, last_op, pc, recent_stats, new_stats, consolidated_stats,
          lock, dir, reader, config, sampled, appended>>

(***************************************************************************)
(* Option, Vec indexing, panics.                                           *)
(***************************************************************************)
None == <<>>
Some(x) == <<x>>
IsSome(o) == Len(o) = 1
Unwrap(o) == o[1]
At(v, i) == v[i + 1]
SetAt(v, i, x) == [v EXCEPT ![i + 1] = x]
\* What a call that can panic gives: a record that is a Panic, or the call's own
\* record (a StatsHistory, Ret(value), or next's [item, it]).
Panic(kind) == [panic |-> kind]
IsPanic(r) == "panic" \in DOMAIN r
Ret(x) == [ret |-> x]

(***************************************************************************)
(* f32 values are exact rationals <<numerator, denominator>> in lowest     *)
(* terms with a positive denominator: the arithmetic of the model does not *)
(* round.  The conversions between integers and f32 (`as f32`, `.round()   *)
(* as u64`) do what they do in Rust.                                       *)
(***************************************************************************)
RECURSIVE GCD(_, _)
GCD(a, b) == IF b = 0 THEN a ELSE GCD(b, a % b)
Abs(x) == IF x < 0 THEN -x ELSE x
Rat(n, d) ==
    LET g == GCD(Abs(n), Abs(d))
        s == IF d < 0 THEN -1 ELSE 1
    IN <<(s * n) \div g, (s * d) \div g>>
F32(n) == <<n, 1>>
LCM(a, b) == (a * b) \div GCD(a, b)
RatAdd(a, b) ==
    LET l == LCM(a[2], b[2])
    IN Rat(a[1] * (l \div a[2]) + b[1] * (l \div b[2]), l)
RatSub(a, b) ==
    LET l == LCM(a[2], b[2])
    IN Rat(a[1] * (l \div a[2]) - b[1] * (l \div b[2]), l)
RatDivInt(a, n) == Rat(a[1], a[2] * n)

\* `n as f32` of an unsigned integer: f32 has a 24-bit significand, so an
\* integer above 2^24 becomes the nearest multiple of its unit in the last
\* place, ties to the even significand.
F32Significand == 16777216
RECURSIVE UnitInLastPlace(_, _)
UnitInLastPlace(n, u) ==
    IF n < F32Significand * u THEN u ELSE UnitInLastPlace(n, 2 * u)
as_f32(n) ==
    LET u == UnitInLastPlace(n, 1)
        q == n \div u
        r == n % u
    IN IF 2 * r < u THEN F32(q * u)
       ELSE IF 2 * r > u THEN F32((q + 1) * u)
       ELSE F32((IF q % 2 = 0 THEN q ELSE q + 1) * u)

\* f32::round: the nearest integer, a half away from zero.
round(x) ==
    IF x[1] >= 0
    THEN (2 * x[1] + x[2]) \div (2 * x[2])
    ELSE 0 - ((2 * (0 - x[1]) + x[2]) \div (2 * x[2]))

\* `as usize` / `as u64` of a rounded f32: a negative value saturates to 0.
as_unsigned(i) == IF i < 0 THEN 0 ELSE i

(***************************************************************************)
(* AllStats, with the fields of general, cpu and network side by side.     *)
(* The history never looks inside a snapshot; the dashboard reads          *)
(* uptime_seconds, filesystems and collection_time; consolidation averages *)
(* the load averages, the cpu loads and temperature, the memory used and   *)
(* the socket counts, and copies the rest from the last snapshot.  A       *)
(* snapshot is sampled in one of the Shapes: "bare" has every optional     *)
(* metric absent, "cpu" has only the cpu loads, "huge" only a memory       *)
(* reading above 2^24 MB, and "busy" reports one more core than the rest.  *)
(***************************************************************************)
Shapes == {"bare", "idle", "mid", "busy", "cpu", "huge"}
Full == {"idle", "mid", "busy"}

LoadAverages(one, five, fifteen) ==
    [one_minute |-> F32(one), five_minutes |-> F32(five),
     fifteen_minutes |-> F32(fifteen)]
MemoryStats(used, total) == [used_mb |-> used, total_mb |-> total]
SocketStats(tcp, orphaned, udp, tcp6, udp6) ==
    [tcp_in_use |-> tcp, tcp_orphaned |-> orphaned, udp_in_use |-> udp,
     tcp6_in_use |-> tcp6, udp6_in_use |-> udp6]

AllStats(time, shape) ==
    [collection_time |-> time,
     uptime_seconds |-> IF shape \in Full THEN Some(time) ELSE None,
     boot_timestamp |-> IF shape \in Full THEN Some(0) ELSE None,
     load_averages |->
         CASE shape = "idle" -> Some(LoadAverages(1, 2, 3))
           [] shape = "mid" -> Some(LoadAverages(2, 2, 3))
           [] shape = "busy" -> Some(LoadAverages(6, 5, 3))
           [] OTHER -> None,
     per_logical_cpu_load_percent |->
         CASE shape = "idle" -> Some(<<F32(10), F32(10)>>)
           [] shape = "mid" -> Some(<<F32(30), F32(10)>>)
           [] shape = "busy" -> Some(<<F32(20), F32(30), F32(40)>>)
           [] shape = "cpu" -> Some(<<F32(50), F32(50)>>)
           [] OTHER -> None,
     aggregate_load_percent |->
         CASE shape = "idle" -> Some(F32(10))
           [] shape = "mid" -> Some(F32(20))
           [] shape = "busy" -> Some(F32(30))
           [] shape = "cpu" -> Some(F32(50))
           [] OTHER -> None,
     temp_celsius |->
         CASE shape = "idle" -> Some(F32(40))
           [] shape = "mid" -> Some(F32(45))
           [] shape = "busy" -> Some(F32(60))
           [] OTHER -> None,
     memory |->
         CASE shape = "idle" -> Some(MemoryStats(100, 1000))
           [] shape = "mid" -> Some(MemoryStats(201, 1000))
           [] shape = "busy" -> Some(MemoryStats(300, 2000))
           [] shape = "huge" -> Some(MemoryStats(16777217, 20000000))
           [] OTHER -> None,
     filesystems |->
         CASE shape \in {"idle", "mid"} -> Some("mounts")
           [] shape = "busy" -> Some("mounts+usb")
           [] OTHER -> None,
     interfaces |->
         CASE shape \in {"idle", "mid"} -> Some("eth0")
           [] shape = "busy" -> Some("eth0+wlan0")
           [] OTHER -> None,
     sockets |->
         CASE shape = "idle" -> Some(SocketStats(4, 0, 1, 0, 0))
           [] shape = "mid" -> Some(SocketStats(5, 1, 2, 1, 0))
           [] shape = "busy" -> Some(SocketStats(6, 1, 4, 1, 1))
           [] OTHER -> None]

(***************************************************************************)
(* StatsHistory                                                            *)
(***************************************************************************)
new(max_size) ==
    [max_size |-> max_size, stats |-> <<>>, most_recent_index |-> 0]

\* get_next_index without the wrap.
get_next_index_unwrapped(self) == self.most_recent_index + 1

get_next_index(self) ==
    IF self.max_size = 1
    THEN 0
    ELSE (self.most_recent_index + 1) % (self.max_size - 1)

RECURSIVE push(_, _), update_most_recent_stats(_, _)

\* push that appends without moving most_recent_index to the new entry.
push_stale_index(self, s) ==
    IF Len(self.stats) = self.max_size
    THEN update_most_recent_stats(
             [self EXCEPT !.most_recent_index = get_next_index(self)], s)
    ELSE [self EXCEPT !.stats = Append(self.stats, s)]

push(self, s) ==
    IF Len(self.stats) = self.max_size
    THEN update_most_recent_stats(
             [self EXCEPT !.most_recent_index = get_next_index(self)], s)
    ELSE [self EXCEPT !.stats = Append(self.stats, s),
                      !.most_recent_index = Len(self.stats)]

\* update_most_recent_stats that takes "not full" for "empty".
update_pushes_until_full(self, s) ==
    IF Len(self.stats) < self.max_size
    THEN push(self, s)
    ELSE [self EXCEPT !.stats = SetAt(self.stats, self.most_recent_index, s)]

\* update_most_recent_stats without the is_empty branch.
update_without_empty_check(self, s) ==
    IF self.most_recent_index >= Len(self.stats)
    THEN Panic("index out of bounds")
    ELSE [self EXCEPT !.stats = SetAt(self.stats, self.most_recent_index, s)]

update_most_recent_stats(self, s) ==
    IF self.stats = <<>>
    THEN push(self, s)
    ELSE IF self.most_recent_index >= Len(self.stats)
         THEN Panic("index out of bounds")
         ELSE [self EXCEPT !.stats = SetAt(self.stats, self.most_recent_index, s)]

\* get_most_recent_stats without the is_empty branch.
get_most_recent_stats_unchecked(self) ==
    IF self.most_recent_index >= Len(self.stats)
    THEN Panic("index out of bounds")
    ELSE Ret(Some(At(self.stats, self.most_recent_index)))

get_most_recent_stats(self) ==
    IF self.stats = <<>>
    THEN Ret(None)
    ELSE IF self.most_recent_index >= Len(self.stats)
         THEN Panic("index out of bounds")
         ELSE Ret(Some(At(self.stats, self.most_recent_index)))

(***************************************************************************)
(* StatsHistoryIterator                                                    *)
(***************************************************************************)
into_iter(self) ==
    [index |-> IF Len(self.stats) = self.max_size THEN get_next_index(self) ELSE 0,
     done |-> FALSE]

\* next that computes the following index before it looks at most_recent_index.
next_advance_first(self, it) ==
    IF it.done
    THEN [item |-> None, it |-> it]
    ELSE IF it.index >= Len(self.stats)
         THEN Panic("index out of bounds")
         ELSE IF self.max_size - 1 = 0
              THEN Panic("remainder by zero")
              ELSE IF it.index = self.most_recent_index
                   THEN [item |-> Some(At(self.stats, it.index)),
                         it |-> [it EXCEPT !.done = TRUE]]
                   ELSE [item |-> Some(At(self.stats, it.index)),
                         it |-> [it EXCEPT !.index = (it.index + 1) % (self.max_size - 1)]]

\* next: the item returned (an Option) and the iterator afterwards, or a panic.
next(self, it) ==
    IF it.done
    THEN [item |-> None, it |-> it]
    ELSE IF it.index >= Len(self.stats)
         THEN Panic("index out of bounds")
         ELSE IF it.index = self.most_recent_index
              THEN [item |-> Some(At(self.stats, it.index)),
                    it |-> [it EXCEPT !.done = TRUE]]
              ELSE IF self.max_size - 1 = 0
                   THEN Panic("remainder by zero")
                   ELSE [item |-> Some(At(self.stats, it.index)),
                         it |-> [it EXCEPT !.index = (it.index + 1) % (self.max_size - 1)]]

(***************************************************************************)
(* Consolidation                                                           *)
(***************************************************************************)
\* updated_average that replaces the average by the new value.
updated_average_latest(self, new_value, n) ==
    RatAdd(self, RatSub(new_value, self))

updated_average(self, new_value, n) ==
    RatAdd(self, RatDivInt(RatSub(new_value, self), n))

\* update_averages that drops the entries beyond the new list.
update_averages_truncating(self, new_values, n) ==
    [j \in 1..Len(new_values) |->
        IF j <= Len(self)
        THEN updated_average(self[j], new_values[j], n)
        ELSE updated_average(F32(0), new_values[j], n)]

update_averages(self, new_values, n) ==
    LET padded == IF Len(self) < Len(new_values)
                  THEN self \o [j \in 1..(Len(new_values) - Len(self)) |-> F32(0)]
                  ELSE self
    IN [j \in 1..Len(padded) |->
           IF j <= Len(new_values)
           THEN updated_average(padded[j], new_values[j], n)
           ELSE padded[j]]

\* The accumulators of consolidate_all_stats before its loop.
averages_at_start ==
    [average_one_min_load_average |-> F32(0),
     average_five_min_load_average |-> F32(0),
     average_fifteen_min_load_average |-> F32(0),
     average_per_logical_cpu_loads |-> <<>>,
     average_aggregate_cpu_load |-> F32(0),
     average_temp |-> F32(0),
     average_mem_used |-> F32(0),
     max_total_mem |-> 0,
     average_tcp_used |-> F32(0),
     average_tcp_orphaned |-> F32(0),
     average_udp_used |-> F32(0),
     average_tcp6_used |-> F32(0),
     average_udp6_used |-> F32(0)]

\* One pass of `for (i, all_stats) in stats_list.iter().enumerate()`, with
\* n = i + 1.
averages_step(acc, all_stats, n) ==
    LET load_averages == all_stats.load_averages
        loads == all_stats.per_logical_cpu_load_percent
        aggregate == all_stats.aggregate_load_percent
        temp == all_stats.temp_celsius
        memory_stats == all_stats.memory
        socket_stats == all_stats.sockets
        Avg(field, value) == updated_average(acc[field], value, n)
    IN [average_one_min_load_average |->
            IF IsSome(load_averages)
            THEN Avg("average_one_min_load_average", Unwrap(load_averages).one_minute)
            ELSE acc.average_one_min_load_average,
        average_five_min_load_average |->
            IF IsSome(load_averages)
            THEN Avg("average_five_min_load_average", Unwrap(load_averages).five_minutes)
            ELSE acc.average_five_min_load_average,
        average_fifteen_min_load_average |->
            IF IsSome(load_averages)
            THEN Avg("average_fifteen_min_load_average",
                     Unwrap(load_averages).fifteen_minutes)
            ELSE acc.average_fifteen_min_load_average,
        average_per_logical_cpu_loads |->
            IF IsSome(loads)
            THEN update_averages(acc.average_per_logical_cpu_loads, Unwrap(loads), n)
            ELSE acc.average_per_logical_cpu_loads,
        average_aggregate_cpu_load |->
            IF IsSome(aggregate)
            THEN Avg("average_aggregate_cpu_load", Unwrap(aggregate))
            ELSE acc.average_aggregate_cpu_load,
        average_temp |->
            IF IsSome(temp)
            THEN Avg("average_temp", Unwrap(temp))
            ELSE acc.average_temp,
        average_mem_used |->
            IF IsSome(memory_stats)
            THEN Avg("average_mem_used", as_f32(Unwrap(memory_stats).used_mb))
            ELSE acc.average_mem_used,
        max_total_mem |->
            IF IsSome(memory_stats) /\ Unwrap(memory_stats).total_mb > acc.max_total_mem
            THEN Unwrap(memory_stats).total_mb
            ELSE acc.max_total_mem,
        average_tcp_used |->
            IF IsSome(socket_stats)
            THEN Avg("average_tcp_used", as_f32(Unwrap(socket_stats).tcp_in_use))
            ELSE acc.average_tcp_used,
        average_tcp_orphaned |->
            IF IsSome(socket_stats)
            THEN Avg("average_tcp_orphaned", as_f32(Unwrap(socket_stats).tcp_orphaned))
            ELSE acc.average_tcp_orphaned,
        average_udp_used |->
            IF IsSome(socket_stats)
            THEN Avg("average_udp_used", as_f32(Unwrap(socket_stats).udp_in_use))
            ELSE acc.average_udp_used,
        average_tcp6_used |->
            IF IsSome(socket_stats)
            THEN Avg("average_tcp6_used", as_f32(Unwrap(socket_stats).tcp6_in_use))
            ELSE acc.average_tcp6_used,
        average_udp6_used |->
            IF IsSome(socket_stats)
            THEN Avg("average_udp6_used", as_f32(Unwrap(socket_stats).udp6_in_use))
            ELSE acc.average_udp6_used]

\* The accumulators after the first k snapshots of stats_list.
RECURSIVE averages(_, _)
averages(stats_list, k) ==
    IF k = 0
    THEN averages_at_start
    ELSE averages_step(averages(stats_list, k - 1), stats_list[k], k)

\* The first snapshot of the batch instead of the one pop() removes.
first_stats(stats_list) == stats_list[1]

\* stats_list.pop().unwrap()
last_stats(stats_list) == stats_list[Len(stats_list)]

\* The snapshot consolidate_all_stats builds from a batch that is not empty.
consolidated(stats_list) ==
    LET acc == averages(stats_list, Len(stats_list))
        last == last_stats(stats_list)
    IN [collection_time |-> last.collection_time,
        uptime_seconds |-> last.uptime_seconds,
        boot_timestamp |-> last.boot_timestamp,
        load_averages |->
            Some([one_minute |-> acc.average_one_min_load_average,
                  five_minutes |-> acc.average_five_min_load_average,
                  fifteen_minutes |-> acc.average_fifteen_min_load_average]),
        per_logical_cpu_load_percent |-> Some(acc.average_per_logical_cpu_loads),
        aggregate_load_percent |-> Some(acc.average_aggregate_cpu_load),
        temp_celsius |-> Some(acc.average_temp),
        memory |->
            Some([used_mb |-> as_unsigned(round(acc.average_mem_used)),
                  total_mb |-> acc.max_total_mem]),
        filesystems |-> last.filesystems,
        interfaces |-> last.interfaces,
        sockets |->
            Some([tcp_in_use |-> as_unsigned(round(acc.average_tcp_used)),
                  tcp_orphaned |-> as_unsigned(round(acc.average_tcp_orphaned)),
                  udp_in_use |-> as_unsigned(round(acc.average_udp_used)),
                  tcp6_in_use |-> as_unsigned(round(acc.average_tcp6_used)),
                  udp6_in_use |-> as_unsigned(round(acc.average_udp6_used))])]

\* consolidate_all_stats that answers an empty batch with an empty snapshot.
consolidate_empty_as_bare(stats_list) ==
    IF stats_list = <<>>
    THEN AllStats(0, "bare")
    ELSE consolidated(stats_list)

consolidate_all_stats(stats_list) ==
    IF stats_list = <<>>
    THEN Panic("stats_list must not be empty")
    ELSE consolidated(stats_list)

(***************************************************************************)
(* Persistence.  A directory is [exists, old, current]; a file is an       *)
(* Option of its lines.  A line is the JSON object serde writes (camelCase *)
(* keys), or text that is no such object.                                  *)
(***************************************************************************)
NoDir == [exists |-> FALSE, old |-> None, current |-> None, others |-> {}]
Garbage == [garbage |-> TRUE]

to_string(stats) ==
    [collectionTime |-> stats.collection_time,
     uptimeSeconds |-> stats.uptime_seconds,
     bootTimestamp |-> stats.boot_timestamp,
     loadAverages |-> stats.load_averages,
     perLogicalCpuLoadPercent |-> stats.per_logical_cpu_load_percent,
     aggregateLoadPercent |-> stats.aggregate_load_percent,
     tempCelsius |-> stats.temp_celsius,
     memory |-> stats.memory,
     filesystems |-> stats.filesystems,
     interfaces |-> stats.interfaces,
     sockets |-> stats.sockets]

\* serde_json::from_str: Ok(AllStats) as Ret, or the error.
from_str(line) ==
    IF "garbage" \in DOMAIN line
    THEN [error |-> "deserialize"]
    ELSE Ret([collection_time |-> line.collectionTime,
              uptime_seconds |-> line.uptimeSeconds,
              boot_timestamp |-> line.bootTimestamp,
              load_averages |-> line.loadAverages,
              per_logical_cpu_load_percent |-> line.perLogicalCpuLoadPercent,
              aggregate_load_percent |-> line.aggregateLoadPercent,
              temp_celsius |-> line.tempCelsius,
              memory |-> line.memory,
              filesystems |-> line.filesystems,
              interfaces |-> line.interfaces,
              sockets |-> line.sockets])

IsErr(r) == "error" \in DOMAIN r

\* Bytes of a line with its newline: an absent field is shorter than a present one.
LineBytes(line) ==
    IF "garbage" \in DOMAIN line
    THEN 1
    ELSE 3 + Len(line.uptimeSeconds) + Len(line.bootTimestamp)
           + Len(line.loadAverages) + Len(line.perLogicalCpuLoadPercent)
           + Len(line.aggregateLoadPercent) + Len(line.tempCelsius)
           + Len(line.memory) + Len(line.filesystems) + Len(line.interfaces)
           + Len(line.sockets)

RECURSIVE FileBytes(_)
FileBytes(lines) ==
    IF lines = <<>> THEN 0 ELSE LineBytes(Head(lines)) + FileBytes(Tail(lines))

\* The rotation test with > in place of >=.
should_rotate_strict(len, dir_size_limit_bytes) ==
    len > dir_size_limit_bytes \div 2

\* The rotation test that never fires.
should_rotate_never(len, dir_size_limit_bytes) == FALSE

\* current_stats_path.metadata()?.len() >= (dir_size_limit_bytes / 2)
should_rotate(len, dir_size_limit_bytes) ==
    len >= dir_size_limit_bytes \div 2

\* The calls of persist_stats that can fail ("ok": none does).
IoOutcomes == {"ok", "create_dir_all", "metadata", "rename", "open", "write"}

\* persist_stats whose rotation copies "current" to "old" and goes on appending
\* to "current".
persist_stats_copying(stats, d, dir_size_limit_bytes, io) ==
    IF ~d.exists /\ io = "create_dir_all"
    THEN [error |-> io, dir |-> d]
    ELSE LET d1 == [d EXCEPT !.exists = TRUE]
             rotate == /\ IsSome(d1.current)
                       /\ should_rotate(FileBytes(Unwrap(d1.current)),
                                        dir_size_limit_bytes)
         IN IF IsSome(d1.current) /\ io = "metadata"
            THEN [error |-> io, dir |-> d1]
            ELSE IF rotate /\ io = "rename"
            THEN [error |-> io, dir |-> d1]
            ELSE LET d2 == IF rotate THEN [d1 EXCEPT !.old = d1.current] ELSE d1
                 IN IF io = "open"
                    THEN [error |-> io, dir |-> d2]
                    ELSE LET d3 == IF IsSome(d2.current)
                                   THEN d2
                                   ELSE [d2 EXCEPT !.current = Some(<<>>)]
                         IN IF io = "write"
                            THEN [error |-> io, dir |-> d3]
                            ELSE [ok |-> TRUE,
                                  dir |-> [d3 EXCEPT !.current =
                                      Some(Append(Unwrap(d3.current), to_string(stats)))]]

\* persist_stats, where io names the call that fails ("ok": none does).
persist_stats(stats, d, dir_size_limit_bytes, io) ==
    IF ~d.exists /\ io = "create_dir_all"
    THEN [error |-> io, dir |-> d]
    ELSE LET d1 == [d EXCEPT !.exists = TRUE]
             rotate == /\ IsSome(d1.current)
                       /\ should_rotate(FileBytes(Unwrap(d1.current)),
                                        dir_size_limit_bytes)
         IN IF IsSome(d1.current) /\ io = "metadata"
            THEN [error |-> io, dir |-> d1]
            ELSE IF rotate /\ io = "rename"
            THEN [error |-> io, dir |-> d1]
            ELSE LET d2 == IF rotate
                           THEN [d1 EXCEPT !.old = d1.current, !.current = None]
                           ELSE d1
                 IN IF io = "open"
                    THEN [error |-> io, dir |-> d2]
                    ELSE LET d3 == IF IsSome(d2.current)
                                   THEN d2
                                   ELSE [d2 EXCEPT !.current = Some(<<>>)]
                         IN IF io = "write"
                            THEN [error |-> io, dir |-> d3]
                            ELSE [ok |-> TRUE,
                                  dir |-> [d3 EXCEPT !.current =
                                      Some(Append(Unwrap(d3.current), to_string(stats)))]]

\* read_lines that puts each snapshot before the ones read so far.
RECURSIVE read_lines_newest_first(_, _)
read_lines_newest_first(lines, stats) ==
    IF lines = <<>>
    THEN Ret(stats)
    ELSE LET parsed == from_str(Head(lines))
         IN IF IsErr(parsed)
            THEN parsed
            ELSE read_lines_newest_first(Tail(lines), <<parsed.ret>> \o stats)

\* read_lines that skips a line it cannot parse.
RECURSIVE read_lines_skipping(_, _)
read_lines_skipping(lines, stats) ==
    IF lines = <<>>
    THEN Ret(stats)
    ELSE LET parsed == from_str(Head(lines))
         IN IF IsErr(parsed)
            THEN read_lines_skipping(Tail(lines), stats)
            ELSE read_lines_skipping(Tail(lines), Append(stats, parsed.ret))

\* The lines of a file parsed in order: the snapshots, or the first error.
RECURSIVE read_lines(_, _)
read_lines(lines, stats) ==
    IF lines = <<>>
    THEN Ret(stats)
    ELSE LET parsed == from_str(Head(lines))
         IN IF IsErr(parsed)
            THEN parsed
            ELSE read_lines(Tail(lines), Append(stats, parsed.ret))

\* The match on NonZeroUsize::new(stats.len()) without its None arm.
loaded_unchecked(stats) ==
    [max_size |-> Len(stats), stats |-> stats, most_recent_index |-> Len(stats) - 1]

\* match NonZeroUsize::new(stats.len())
loaded(stats) ==
    IF Len(stats) > 0
    THEN [max_size |-> Len(stats), stats |-> stats, most_recent_index |-> Len(stats) - 1]
    ELSE new(1)

load_from(d) ==
    LET from_old == IF IsSome(d.old) THEN read_lines(Unwrap(d.old), <<>>) ELSE Ret(<<>>)
    IN IF IsErr(from_old)
       THEN from_old
       ELSE LET from_both == IF IsSome(d.current)
                             THEN read_lines(Unwrap(d.current), from_old.ret)
                             ELSE from_old
            IN IF IsErr(from_both)
               THEN from_both
               ELSE Ret(loaded(from_both.ret))

(***************************************************************************)
(* DashboardContext                                                        *)
(***************************************************************************)
Diverges == [diverges |-> TRUE]
IsDiverges(r) == "diverges" \in DOMAIN r

\* `for stats in stats_history.into_iter()`: the items collected, a panic, or a
\* loop that never ends.  An iterator that has returned more than max_size items
\* has been at one index twice with nothing changed, so it cycles forever.
RECURSIVE for_each(_, _, _)
for_each(stats_history, it, items) ==
    IF Len(items) > stats_history.max_size
    THEN Diverges
    ELSE LET r == next(stats_history, it)
         IN IF IsPanic(r)
            THEN r
            ELSE IF r.item = None
                 THEN Ret(items)
                 ELSE for_each(stats_history, r.it, items \o r.item)

collect(stats_history) == for_each(stats_history, into_iter(stats_history), <<>>)

to_rfc3339_opts(time) == ToString(time)

\* "%I:%M:%S %p": the time of day, without the date.
SecondsPerDay == 86400
format_time(time) == ToString(time % SecondsPerDay)

x_values(items) == [i \in 1..Len(items) |-> format_time(items[i].collection_time)]

Chart(id, items) == [id |-> id, x_values |-> x_values(items)]

build_cpu_charts(items) ==
    <<Chart("cpu-usage-chart", items), Chart("cpu-temp-chart", items)>>

build_memory_chart(items) == Chart("ram-chart", items)

build_load_average_chart(items) == Chart("load-average-chart", items)

build_network_charts(items) ==
    <<Chart("network-usage-chart", items), Chart("network-errors-chart", items),
      Chart("sockets-chart", items)>>

Section(name, stats) == [name |-> name, stats |-> stats, subsections |-> <<>>]

build_general_section(stats) ==
    IF IsSome(stats.uptime_seconds)
    THEN Some(Section("General", <<"Uptime">>))
    ELSE None

build_filesystems_section(stats) == Section("Filesystems", <<>>)

build_network_section(stats) == None

\* DashboardContext::from: Ret(context), a panic, or no return at all.
from(stats_history, dark_mode) ==
    LET most_recent == get_most_recent_stats(stats_history)
    IN IF IsPanic(most_recent)
       THEN most_recent
       ELSE IF most_recent.ret = None
       THEN Ret([title |-> "Dashboard",
                 dark_mode |-> dark_mode,
                 charts |-> <<>>,
                 sections |-> <<Section("No stats yet", <<>>)>>,
                 last_update_time |-> "N/A"])
       ELSE LET most_recent_stats == Unwrap(most_recent.ret)
                sections ==
                    build_general_section(most_recent_stats)
                    \o (IF IsSome(most_recent_stats.filesystems)
                        THEN <<build_filesystems_section(most_recent_stats)>>
                        ELSE <<>>)
                    \o build_network_section(most_recent_stats)
                walk == collect(stats_history)
            IN IF IsPanic(walk) \/ IsDiverges(walk)
               THEN walk
               ELSE Ret([title |-> "Dashboard",
                         dark_mode |-> dark_mode,
                         charts |-> build_cpu_charts(walk.ret)
                                    \o <<build_memory_chart(walk.ret)>>
                                    \o <<build_load_average_chart(walk.ret)>>
                                    \o build_network_charts(walk.ret),
                         sections |-> sections,
                         last_update_time |-> to_rfc3339_opts(most_recent_stats.collection_time)])

(***************************************************************************)
(* The history on its own: one owner constructs it (new or load_from) and  *)
(* then calls push, update_most_recent_stats, the iterator and the         *)
(* dashboard in any order the borrow rules allow (no write while an        *)
(* iterator is alive).  push and update_most_recent_stats are private to   *)
(* the module and are only ever called on a history made by new; a loaded  *)
(* history is read.  Each snapshot is taken at a later time than the one   *)
(* before.                                                                 *)
(***************************************************************************)
HarnessShapes == {"bare", "busy"}

\* The directories load_from finds at start: k lines, the first j of them in "old".
StoredLines(a, b) == [i \in 1..(b - a) |-> to_string(AllStats(a + i, "idle"))]
StartDirs ==
    {[exists |-> TRUE,
      old |-> IF j = 0 THEN None ELSE Some(StoredLines(0, j)),
      current |-> IF k = j /\ j > 0 THEN None ELSE Some(StoredLines(j, k)),
      others |-> {}] :
        j \in 0..MaxLoad, k \in 0..MaxLoad} \cup {NoDir}

LoopOff ==
    /\ pc = "off"
    /\ recent_stats = <<>>
    /\ new_stats = None
    /\ consolidated_stats = None
    /\ lock = [owner |-> "none", poisoned |-> FALSE]
    /\ reader = [pc |-> "off", seen |-> None]
    /\ config = [history_size |-> 1, consolidation_limit |-> 1, persistence |-> None]
    /\ sampled = <<>>
    /\ appended = <<>>

Init ==
    /\ \/ \E max_size \in 1..MaxCap :
            /\ history = new(max_size)
            /\ origin = "new"
            /\ dir = NoDir
            /\ clock = 0
       \/ \E d \in StartDirs :
            /\ ~IsErr(load_from(d))
            /\ history = load_from(d).ret
            /\ origin = "load"
            /\ dir = d
            /\ clock = MaxLoad
    /\ iter = None
    /\ yielded = <<>>
    /\ fault = None
    /\ dashboard = None
    /\ pushes = <<>>
    /\ updates = 0
    /\ last_op = [op |-> "construct", stats |-> None]
    /\ LoopOff

\* What a call on the history leaves: the new history, or the panic.
Outcome(r) ==
    IF IsPanic(r)
    THEN /\ fault' = Some(r.panic)
         /\ UNCHANGED history
    ELSE /\ history' = r
         /\ UNCHANGED fault

Push(shape) ==
    /\ pc = "off" /\ fault = None /\ iter = None
    /\ origin \in {"new", "load"}
    /\ Len(pushes) + updates < MaxOps
    /\ LET s == AllStats(clock + 1, shape)
       IN /\ Outcome(push(history, s))
          /\ pushes' = Append(pushes, s)
          /\ last_op' = [op |-> "push", stats |-> Some(s)]
    /\ clock' = clock + 1
    /\ dashboard' = None
    /\ UNCHANGED <<iter, yielded, origin, updates>>
    /\ UNCHANGED loopVars

UpdateMostRecentStats(shape) ==
    /\ pc = "off" /\ fault = None /\ iter = None
    /\ origin \in {"new", "load"}
    /\ Len(pushes) + updates < MaxOps
    /\ LET s == AllStats(clock + 1, shape)
       IN /\ Outcome(update_most_recent_stats(history, s))
          /\ last_op' = [op |-> "update_most_recent_stats", stats |-> Some(s)]
    /\ updates' = updates + 1
    /\ clock' = clock + 1
    /\ dashboard' = None
    /\ UNCHANGED <<iter, yielded, origin, pushes>>
    /\ UNCHANGED loopVars

IntoIter ==
    /\ pc = "off" /\ fault = None /\ iter = None
    /\ iter' = Some(into_iter(history))
    /\ yielded' = <<>>
    /\ dashboard' = None
    /\ UNCHANGED <<history, fault, clock, origin, pushes, updates, last_op>>
    /\ UNCHANGED loopVars

\* An iterator that keeps its cursor in the history it walks.
IterNextMovesLatest ==
    /\ pc = "off" /\ fault = None /\ iter # None
    /\ Len(yielded) < history.max_size + ExtraYield
    /\ LET r == next(history, Unwrap(iter))
       IN IF IsPanic(r)
          THEN /\ fault' = Some(r.panic)
               /\ UNCHANGED <<iter, yielded, history>>
          ELSE /\ iter' = Some(r.it)
               /\ yielded' = yielded \o r.item
               /\ history' = [history EXCEPT !.most_recent_index = r.it.index]
               /\ UNCHANGED fault
    /\ UNCHANGED <<clock, dashboard, origin, pushes, updates, last_op>>
    /\ UNCHANGED loopVars

IterNext ==
    /\ pc = "off" /\ fault = None /\ iter # None
    /\ Len(yielded) < history.max_size + ExtraYield
    /\ LET r == next(history, Unwrap(iter))
       IN IF IsPanic(r)
          THEN /\ fault' = Some(r.panic)
               /\ UNCHANGED <<iter, yielded>>
          ELSE /\ iter' = Some(r.it)
               /\ yielded' = yielded \o r.item
               /\ UNCHANGED fault
    /\ UNCHANGED <<history, clock, dashboard, origin, pushes, updates, last_op>>
    /\ UNCHANGED loopVars

IterDrop ==
    /\ pc = "off" /\ fault = None /\ iter # None
    /\ iter' = None
    /\ yielded' = <<>>
    /\ UNCHANGED <<history, fault, clock, dashboard, origin, pushes, updates, last_op>>
    /\ UNCHANGED loopVars

BuildDashboard(dark_mode) ==
    /\ pc = "off" /\ fault = None /\ iter = None
    /\ LET r == from(history, dark_mode)
       IN IF IsPanic(r)
          THEN /\ fault' = Some(r.panic)
               /\ UNCHANGED dashboard
          ELSE /\ dashboard' = Some(r)
               /\ UNCHANGED fault
    /\ UNCHANGED <<history, clock, iter, yielded, origin, pushes, updates, last_op>>
    /\ UNCHANGED loopVars

Next ==
    \/ \E shape \in HarnessShapes : Push(shape)
    \/ \E shape \in HarnessShapes : UpdateMostRecentStats(shape)
    \/ IntoIter
    \/ IterNext
    \/ IterDrop
    \/ \E dark_mode \in BOOLEAN : BuildDashboard(dark_mode)

Spec == Init /\ [][Next]_vars

(***************************************************************************)
(* UpdatingStatsHistory: the update thread of UpdatingStatsHistory::new,   *)
(* one step per statement that blocks or touches shared state, and a       *)
(* reader that takes the same Mutex.  A thread that panics is "dead"; a    *)
(* panic while the Mutex is held poisons it, and lock().unwrap() on a      *)
(* poisoned Mutex panics.                                                  *)
(***************************************************************************)
LoopShapes == {"idle", "busy"}

\* The failures of persist_stats the update thread is run against.
LoopIoOutcomes == {"ok", "create_dir_all", "write"}

Configs ==
    [history_size : 1..MaxLoopCap,
     consolidation_limit : 1..MaxLimit,
     persistence : {None, Some([size_limit |-> SizeLimit])}]

HarnessOff ==
    /\ iter = None
    /\ yielded = <<>>
    /\ dashboard = None
    /\ origin = "new"
    /\ pushes = <<>>
    /\ updates = 0
    /\ last_op = [op |-> "construct", stats |-> None]

InitLoop ==
    /\ config \in Configs
    /\ history = new(config.history_size)
    /\ fault = None
    /\ clock = 0
    /\ pc = "sample"
    /\ recent_stats = <<>>
    /\ new_stats = None
    /\ consolidated_stats = None
    /\ lock = [owner |-> "none", poisoned |-> FALSE]
    /\ dir = NoDir
    /\ reader = [pc |-> "idle", seen |-> None]
    /\ sampled = <<>>
    /\ appended = <<>>
    /\ HarnessOff

Free == [owner |-> "none", poisoned |-> lock.poisoned]
Poisoned == [owner |-> "none", poisoned |-> TRUE]

\* let new_stats = AllStats::from(..); recent_stats.push(new_stats.clone());
\* if recent_stats.len() >= consolidation_limit.get()
Sample(shape) ==
    /\ pc = "sample"
    /\ clock < MaxSamples
    /\ LET s == AllStats(clock + 1, shape)
       IN /\ new_stats' = Some(s)
          /\ recent_stats' = Append(recent_stats, s)
          /\ sampled' = Append(sampled, s)
    /\ clock' = clock + 1
    /\ pc' = IF Len(recent_stats') >= config.consolidation_limit
             THEN "consolidate"
             ELSE "publish_lock"
    /\ UNCHANGED <<history, fault, consolidated_stats, lock, dir, reader, config,
                   appended>>
    /\ UNCHANGED harnessVars

\* let consolidated_stats = consolidate_all_stats(recent_stats);
Consolidate ==
    /\ pc = "consolidate"
    /\ LET r == consolidate_all_stats(recent_stats)
       IN IF IsPanic(r)
          THEN /\ fault' = Some(r.panic)
               /\ pc' = "dead"
               /\ UNCHANGED consolidated_stats
          ELSE /\ consolidated_stats' = Some(r)
               /\ pc' = IF IsSome(config.persistence) THEN "persist" ELSE "flush_lock"
               /\ UNCHANGED fault
    /\ UNCHANGED <<history, clock, recent_stats, new_stats, lock, dir, reader, config, sampled, appended>>
    /\ UNCHANGED harnessVars

\* persist_stats(..).unwrap(): a failed append ends the update thread.
PersistUnwraps(io) ==
    /\ pc = "persist"
    /\ LET s == Unwrap(consolidated_stats)
           r == persist_stats(s, dir, Unwrap(config.persistence).size_limit, io)
       IN /\ dir' = r.dir
          /\ appended' = IF IsErr(r) THEN appended ELSE Append(appended, s)
          /\ last_op' = [op |-> "persist_stats", stats |-> Some(s),
                         result |-> IF IsErr(r) THEN r.error ELSE "ok"]
          /\ pc' = IF IsErr(r) THEN "dead" ELSE "flush_lock"
          /\ fault' = IF IsErr(r) THEN Some(r.error) ELSE fault
    /\ UNCHANGED <<history, clock, recent_stats, new_stats,
                   consolidated_stats, lock, reader, config, sampled>>
    /\ UNCHANGED <<iter, yielded, dashboard, origin, pushes, updates>>

\* if let Err(e) = persist_stats(&consolidated_stats, dir, *size_limit) { println!(..) }
\* The error is printed and dropped; last_op records the call and its result.
Persist(io) ==
    /\ pc = "persist"
    /\ LET s == Unwrap(consolidated_stats)
           r == persist_stats(s, dir, Unwrap(config.persistence).size_limit, io)
       IN /\ dir' = r.dir
          /\ appended' = IF IsErr(r) THEN appended ELSE Append(appended, s)
          /\ last_op' = [op |-> "persist_stats", stats |-> Some(s),
                         result |-> IF IsErr(r) THEN r.error ELSE "ok"]
    /\ pc' = "flush_lock"
    /\ UNCHANGED <<history, fault, clock, recent_stats, new_stats,
                   consolidated_stats, lock, reader, config, sampled>>
    /\ UNCHANGED <<iter, yielded, dashboard, origin, pushes, updates>>

\* let mut history = update_thread_stats_history.lock().unwrap();
AcquireLock(then) ==
    /\ lock.owner = "none"
    /\ IF lock.poisoned
       THEN /\ fault' = Some("poisoned lock")
            /\ pc' = "dead"
            /\ UNCHANGED lock
       ELSE /\ lock' = [lock EXCEPT !.owner = "updater"]
            /\ pc' = then
            /\ UNCHANGED fault
    /\ UNCHANGED <<history, clock, recent_stats, new_stats, consolidated_stats,
                   dir, reader, config, sampled, appended>>
    /\ UNCHANGED harnessVars

\* A write to the shared history by the update thread, which holds the lock.
Write(r, then) ==
    /\ lock.owner = "updater"
    /\ IF IsPanic(r)
       THEN /\ fault' = Some(r.panic)
            /\ pc' = "dead"
            /\ lock' = Poisoned
            /\ UNCHANGED history
       ELSE /\ history' = r
            /\ pc' = then
            /\ UNCHANGED <<fault, lock>>
    /\ UNCHANGED <<clock, recent_stats, new_stats, consolidated_stats, dir,
                   reader, config, sampled, appended>>
    /\ UNCHANGED harnessVars

FlushLock == pc = "flush_lock" /\ AcquireLock("flush_update")

\* The flush with a lock acquisition of its own for each write: the guard is
\* dropped after the update.
FlushUpdateUnlocks ==
    /\ pc = "flush_update"
    /\ lock.owner = "updater"
    /\ history' = update_most_recent_stats(history, Unwrap(consolidated_stats))
    /\ lock' = Free
    /\ pc' = "flush_push"
    /\ UNCHANGED <<fault, clock, recent_stats, new_stats, consolidated_stats, dir,
                   reader, config, sampled, appended>>
    /\ UNCHANGED harnessVars

\* The flush as two pushes: history.push(consolidated_stats) in place of the update.
FlushPushesConsolidated ==
    /\ pc = "flush_update"
    /\ Write(push(history, Unwrap(consolidated_stats)), "flush_push")

\* history.update_most_recent_stats(consolidated_stats);
FlushUpdate ==
    /\ pc = "flush_update"
    /\ Write(update_most_recent_stats(history, Unwrap(consolidated_stats)), "flush_push")

\* history.push(new_stats);
FlushPush ==
    /\ pc = "flush_push"
    /\ Write(push(history, Unwrap(new_stats)), "flush_unlock")

\* The flush without `recent_stats = Vec::with_capacity(..)`: the batch is kept.
FlushUnlockKeepsBatch ==
    /\ pc = "flush_unlock"
    /\ lock' = Free
    /\ pc' = "sleep"
    /\ UNCHANGED <<history, fault, clock, recent_stats, new_stats, consolidated_stats,
                   dir, reader, config, sampled, appended>>
    /\ UNCHANGED harnessVars

\* The guard goes out of scope; recent_stats = Vec::with_capacity(..);
FlushUnlock ==
    /\ pc = "flush_unlock"
    /\ lock' = Free
    /\ recent_stats' = <<>>
    /\ pc' = "sleep"
    /\ UNCHANGED <<history, fault, clock, new_stats, consolidated_stats, dir,
                   reader, config, sampled, appended>>
    /\ UNCHANGED harnessVars

PublishLock == pc = "publish_lock" /\ AcquireLock("publish")

\* The else branch with history.push(new_stats).
PublishPushes ==
    /\ pc = "publish"
    /\ Write(push(history, Unwrap(new_stats)), "publish_unlock")

\* history.update_most_recent_stats(new_stats);
Publish ==
    /\ pc = "publish"
    /\ Write(update_most_recent_stats(history, Unwrap(new_stats)), "publish_unlock")

\* The else branch with its guard bound outside the block: still held in the sleep.
PublishKeepsLock ==
    /\ pc = "publish_unlock"
    /\ pc' = "sleep"
    /\ UNCHANGED <<history, fault, clock, recent_stats, new_stats,
                   consolidated_stats, lock, dir, reader, config, sampled, appended>>
    /\ UNCHANGED harnessVars

\* The guard goes out of scope at the end of the else block.
PublishUnlock ==
    /\ pc = "publish_unlock"
    /\ lock' = Free
    /\ pc' = "sleep"
    /\ UNCHANGED <<history, fault, clock, recent_stats, new_stats,
                   consolidated_stats, dir, reader, config, sampled, appended>>
    /\ UNCHANGED harnessVars

\* thread::sleep(update_frequency - cpu_sample_duration); the locals of the
\* iteration are gone when the next one starts.
Sleep ==
    /\ pc = "sleep"
    /\ pc' = "sample"
    /\ new_stats' = None
    /\ consolidated_stats' = None
    /\ UNCHANGED <<history, fault, clock, recent_stats, lock, dir, reader, config, sampled, appended>>
    /\ UNCHANGED harnessVars

\* A reader: lock, one operation on the history, unlock.
ReaderLock ==
    /\ reader.pc = "idle"
    /\ lock.owner = "none"
    /\ IF lock.poisoned
       THEN /\ reader' = [reader EXCEPT !.pc = "dead"]
            /\ UNCHANGED lock
       ELSE /\ reader' = [reader EXCEPT !.pc = "locked"]
            /\ lock' = [lock EXCEPT !.owner = "reader"]
    /\ UNCHANGED <<history, fault, clock, pc, recent_stats, new_stats,
                   consolidated_stats, dir, config, sampled, appended>>
    /\ UNCHANGED harnessVars

\* The operations a reader runs under the lock: get_most_recent_stats, or
\* DashboardContext::from, which also walks the whole history.
ReaderOps == {"most_recent", "dashboard"}

\* What the operation gives: Ret(the latest snapshot it saw), a panic, or no
\* return at all.
reader_op(op, stats_history) ==
    IF op = "most_recent"
    THEN get_most_recent_stats(stats_history)
    ELSE LET context == from(stats_history, FALSE)
         IN IF IsPanic(context) \/ IsDiverges(context)
            THEN context
            ELSE get_most_recent_stats(stats_history)

\* A reader whose walk never ends stays at "iterating" with the lock held.
ReaderRead(op) ==
    /\ reader.pc = "locked"
    /\ LET r == reader_op(op, history)
       IN IF IsPanic(r)
          THEN /\ reader' = [reader EXCEPT !.pc = "dead"]
               /\ lock' = Poisoned
          ELSE IF IsDiverges(r)
          THEN /\ reader' = [reader EXCEPT !.pc = "iterating"]
               /\ UNCHANGED lock
          ELSE /\ reader' = [pc |-> "read", seen |-> r.ret]
               /\ UNCHANGED lock
    /\ UNCHANGED <<history, fault, clock, pc, recent_stats, new_stats,
                   consolidated_stats, dir, config, sampled, appended>>
    /\ UNCHANGED harnessVars

ReaderUnlock ==
    /\ reader.pc = "read"
    /\ reader' = [pc |-> "idle", seen |-> None]
    /\ lock' = Free
    /\ UNCHANGED <<history, fault, clock, pc, recent_stats, new_stats,
                   consolidated_stats, dir, config, sampled, appended>>
    /\ UNCHANGED harnessVars

NextLoop ==
    \/ \E shape \in LoopShapes : Sample(shape)
    \/ Consolidate
    \/ \E io \in LoopIoOutcomes : Persist(io)
    \/ FlushLock
    \/ FlushUpdate
    \/ FlushPush
    \/ FlushUnlock
    \/ PublishLock
    \/ Publish
    \/ PublishUnlock
    \/ Sleep
    \/ ReaderLock
    \/ \E op \in ReaderOps : ReaderRead(op)
    \/ ReaderUnlock

SpecLoop == InitLoop /\ [][NextLoop]_vars

\* A reader that holds the lock runs its operation and, when the operation has
\* returned, drops the guard.
ReaderStep == (\E op \in ReaderOps : ReaderRead(op)) \/ ReaderUnlock

(***************************************************************************)
(* consolidate_all_stats on its own: the statement                         *)
(* `let consolidated_stats = consolidate_all_stats(recent_stats)` run on   *)
(* any batch of at most MaxBatch snapshots, the empty one included.  The   *)
(* i-th snapshot of a batch is collected at time i.                        *)
(***************************************************************************)
InitConsolidate ==
    /\ \E n \in 0..MaxBatch : \E shapes \in [1..n -> Shapes] :
           recent_stats = [i \in 1..n |-> AllStats(i, shapes[i])]
    /\ pc = "consolidate"
    /\ history = new(1)
    /\ fault = None
    /\ clock = 0
    /\ new_stats = None
    /\ consolidated_stats = None
    /\ lock = [owner |-> "none", poisoned |-> FALSE]
    /\ dir = NoDir
    /\ reader = [pc |-> "off", seen |-> None]
    /\ config = [history_size |-> 1, consolidation_limit |-> 1, persistence |-> None]
    /\ sampled = <<>>
    /\ appended = <<>>
    /\ HarnessOff

NextConsolidate == Consolidate

SpecConsolidate == InitConsolidate /\ [][NextConsolidate]_vars

(***************************************************************************)
(* persist_stats on its own: a run of calls with one size limit on a       *)
(* directory that starts absent or empty.  Each call is handed a           *)
(* consolidated snapshot, as in the update thread, and may fail at any of  *)
(* its I/O calls.                                                          *)
(***************************************************************************)
PersistShapes == {"bare", "idle"}
SizeLimits == {0, 1, 18, 19, 27, 36, SizeLimit}

\* The history variables before load_from has run: no history yet.
NotLoaded ==
    /\ origin = "loading"
    /\ history = new(1)
    /\ iter = None
    /\ yielded = <<>>
    /\ dashboard = None
    /\ pushes = <<>>
    /\ updates = 0
    /\ last_op = [op |-> "construct", stats |-> None]

\* StatsHistory::load_from(&dir) at the next start: the history, or the error.
LoadFrom ==
    /\ origin = "loading"
    /\ LET r == load_from(dir)
       IN IF IsErr(r)
          THEN /\ origin' = "failed"
               /\ last_op' = [op |-> "load_from", stats |-> None, result |-> r.error]
               /\ UNCHANGED history
          ELSE /\ origin' = "load"
               /\ last_op' = [op |-> "load_from", stats |-> None, result |-> "ok"]
               /\ history' = r.ret
    /\ UNCHANGED <<fault, clock, iter, yielded, dashboard, pushes, updates>>
    /\ UNCHANGED loopVars

InitPersist ==
    /\ \E size_limit \in SizeLimits :
           config = [history_size |-> 1, consolidation_limit |-> 1,
                     persistence |-> Some([size_limit |-> size_limit])]
    /\ dir \in {NoDir, [NoDir EXCEPT !.exists = TRUE]}
    /\ pc = "off"
    /\ fault = None
    /\ clock = 0
    /\ recent_stats = <<>>
    /\ new_stats = None
    /\ consolidated_stats = None
    /\ lock = [owner |-> "none", poisoned |-> FALSE]
    /\ reader = [pc |-> "off", seen |-> None]
    /\ sampled = <<>>
    /\ appended = <<>>
    /\ NotLoaded

\* persist_stats(&consolidated_stats, dir, *size_limit)
PersistStats(shape, io) ==
    /\ origin = "loading"
    /\ clock < MaxAppends
    /\ LET s == consolidated(<<AllStats(clock + 1, shape)>>)
           r == persist_stats(s, dir, Unwrap(config.persistence).size_limit, io)
       IN /\ dir' = r.dir
          /\ appended' = IF IsErr(r) THEN appended ELSE Append(appended, s)
          /\ last_op' = [op |-> "persist_stats", stats |-> Some(s),
                         result |-> IF IsErr(r) THEN r.error ELSE "ok"]
    /\ clock' = clock + 1
    /\ UNCHANGED <<history, fault, iter, yielded, dashboard, origin, pushes, updates>>
    /\ UNCHANGED <<pc, recent_stats, new_stats, consolidated_stats, lock, reader,
                   config, sampled>>

NextPersist ==
    \/ \E shape \in PersistShapes, io \in IoOutcomes : PersistStats(shape, io)
    \/ LoadFrom

SpecPersist == InitPersist /\ [][NextPersist]_vars

(***************************************************************************)
(* load_from on its own: one call on a directory whose files, each absent  *)
(* or of at most MaxFileLines lines, hold lines persist_stats wrote and    *)
(* lines that are no snapshot.                                             *)
(***************************************************************************)
LineKinds == {"bare", "idle", "garbage"}

FileOf(kinds, start) ==
    [i \in 1..Len(kinds) |->
        IF kinds[i] = "garbage"
        THEN Garbage
        ELSE to_string(consolidated(<<AllStats(start + i, kinds[i])>>))]

Files(start) ==
    {None} \cup {Some(FileOf(kinds, start)) :
                    kinds \in UNION {[1..n -> LineKinds] : n \in 0..MaxFileLines}}

LoadDirs ==
    {[exists |-> TRUE, old |-> old, current |-> current, others |-> {}] :
        old \in Files(0), current \in Files(MaxFileLines)} \cup {NoDir}

InitLoad ==
    /\ dir \in LoadDirs
    /\ pc = "off"
    /\ fault = None
    /\ clock = 0
    /\ recent_stats = <<>>
    /\ new_stats = None
    /\ consolidated_stats = None
    /\ lock = [owner |-> "none", poisoned |-> FALSE]
    /\ reader = [pc |-> "off", seen |-> None]
    /\ config = [history_size |-> 1, consolidation_limit |-> 1, persistence |-> None]
    /\ sampled = <<>>
    /\ appended = <<>>
    /\ NotLoaded

NextLoad == LoadFrom

SpecLoad == InitLoad /\ [][NextLoad]_vars

(***************************************************************************)
(* Properties of the history on its own (specification Spec).              *)
(***************************************************************************)
LastN(seq, n) == SubSeq(seq, Len(seq) - n + 1, Len(seq))
IsPrefix(a, b) == Len(a) <= Len(b) /\ a = SubSeq(b, 1, Len(a))

\* The live iterator has so far behaved as one that yields exactly `expect`.
Yields(expect) ==
    /\ fault = None
    /\ IsPrefix(yielded, expect)
    /\ Unwrap(iter).done => yielded = expect

\* The transition is a call of `op` on the history.
Called(op) == last_op' # last_op /\ last_op'.op = op
Arg == Unwrap(last_op'.stats)

\* C1: after N + k pushes (k >= 1) into a new history of capacity N, iteration
\* yields exactly the N most recently pushed snapshots, oldest first.
C1_IterationAfterWrap ==
    (origin = "new" /\ updates = 0 /\ iter # None
        /\ Len(pushes) > history.max_size)
    => Yields(LastN(pushes, history.max_size))

\* C2: after m pushes, 1 <= m <= N, into a new history of capacity N, iteration
\* yields exactly the m pushed snapshots in push order.
C2_IterationUpToCapacity ==
    (origin = "new" /\ updates = 0 /\ iter # None
        /\ Len(pushes) >= 1 /\ Len(pushes) <= history.max_size)
    => Yields(pushes)

\* C3: an iteration yields at most `capacity` snapshots, whatever reachable
\* history (new, loaded, pushed to, updated) it walks.
C3_IterationFinite ==
    iter # None => Len(yielded) <= history.max_size

\* C4: after any push or update_most_recent_stats call, get_most_recent_stats
\* returns the snapshot passed to the last such call.
C4_MostRecentIsLastWritten ==
    last_op.op # "construct" => get_most_recent_stats(history) = Ret(last_op.stats)

C4_Witness ==
    /\ last_op.op = "push"
    /\ updates >= 1
    /\ Len(pushes) > history.max_size
    /\ history.max_size >= 2
    /\ get_most_recent_stats(history) = Ret(last_op.stats)

\* C5: a push on a full history moves most_recent_index from i to (i + 1) mod N
\* and overwrites that slot only.
C5_RingAdvance ==
    [][(Called("push") /\ Len(history.stats) = history.max_size)
        => /\ history'.most_recent_index =
                  (history.most_recent_index + 1) % history.max_size
           /\ history'.stats =
                  SetAt(history.stats,
                        (history.most_recent_index + 1) % history.max_size, Arg)]_vars

\* C6: update_most_recent_stats on a non-empty history changes the contents of
\* the most_recent_index slot and nothing else, and a following push lands in
\* the slot it would have used without the update.
C6_UpdateFrame ==
    [][(Called("update_most_recent_stats") /\ history.stats # <<>>)
        => /\ fault' = None
           /\ history'.max_size = history.max_size
           /\ history'.most_recent_index = history.most_recent_index
           /\ history'.stats = SetAt(history.stats, history.most_recent_index, Arg)
           /\ \A shape \in HarnessShapes :
                LET later == AllStats(clock' + 1, shape)
                IN /\ push(history', later).most_recent_index
                        = push(history, later).most_recent_index
                   /\ Len(push(history', later).stats)
                        = Len(push(history, later).stats)]_vars

C6_Witness ==
    /\ last_op.op = "update_most_recent_stats"
    /\ Len(pushes) > history.max_size
    /\ history.max_size >= 2
    /\ Len(history.stats) = history.max_size
    /\ At(history.stats, history.most_recent_index) = Unwrap(last_op.stats)

\* C7: update_most_recent_stats(s) on an empty history leaves length 1,
\* most_recent_index 0 and slot 0 holding s, which is what push(s) leaves.
C7_UpdateOnEmptyIsPush ==
    [][(Called("update_most_recent_stats") /\ history.stats = <<>>)
        => /\ fault' = None
           /\ history' = [max_size |-> history.max_size,
                          stats |-> <<Arg>>,
                          most_recent_index |-> 0]
           /\ history' = push(history, Arg)]_vars

C7_Witness ==
    /\ last_op.op = "update_most_recent_stats"
    /\ updates = 1 /\ pushes = <<>>
    /\ history.max_size >= 2
    /\ history.stats = last_op.stats
    /\ history.most_recent_index = 0

\* C8: get_most_recent_stats returns None exactly when nothing was loaded, pushed
\* or published, and exactly then the dashboard is the "No stats yet" context
\* with no charts (returned, not a panic).
LinesOnDisk(d) ==
    (IF IsSome(d.old) THEN Len(Unwrap(d.old)) ELSE 0)
    + (IF IsSome(d.current) THEN Len(Unwrap(d.current)) ELSE 0)

NoStatsYet(r) ==
    /\ ~IsPanic(r) /\ ~IsDiverges(r)
    /\ r.ret.sections = <<Section("No stats yet", <<>>)>>
    /\ r.ret.charts = <<>>
    /\ r.ret.last_update_time = "N/A"

C8_EmptyHistory ==
    /\ get_most_recent_stats(history) = Ret(None)
         <=> (last_op.op = "construct" /\ LinesOnDisk(dir) = 0)
    /\ \A dark_mode \in BOOLEAN :
         NoStatsYet(from(history, dark_mode))
           <=> get_most_recent_stats(history) = Ret(None)
    /\ dashboard # None =>
         (NoStatsYet(Unwrap(dashboard)) <=> get_most_recent_stats(history) = Ret(None))

C8_Witness ==
    /\ dashboard # None
    /\ history.stats = <<>>
    /\ history.max_size >= 2
    /\ fault = None
    /\ NoStatsYet(Unwrap(dashboard))

\* C9: with capacity 1, after one or more push / update_most_recent_stats calls
\* the history holds exactly the last snapshot written, at index 0; iteration
\* yields exactly that snapshot; nothing has panicked.
C9_CapacityOne ==
    (history.max_size = 1 /\ last_op.op # "construct")
    => /\ history.stats = last_op.stats
       /\ history.most_recent_index = 0
       /\ fault = None
       /\ iter # None => Yields(last_op.stats)

C9_Witness ==
    /\ history.max_size = 1
    /\ Len(pushes) >= 2 /\ updates >= 1
    /\ iter # None /\ Unwrap(iter).done
    /\ yielded = last_op.stats
    /\ fault = None

(***************************************************************************)
(* Properties of the update thread (specification SpecLoop).               *)
(***************************************************************************)
\* C10: while the update thread samples, consolidates, persists or sleeps it
\* does not hold the history lock; it holds it exactly from taking it to the
\* end of the cycle's history writes.
C10_LockOnlyAroundWrites ==
    /\ pc \in {"sample", "consolidate", "persist", "sleep", "flush_lock",
               "publish_lock", "dead"}
         => lock.owner # "updater"
    /\ pc \in {"flush_update", "flush_push", "flush_unlock", "publish",
               "publish_unlock"}
         => lock.owner = "updater"

C10_Witness ==
    /\ pc = "persist"
    /\ lock.owner = "reader"
    /\ reader.pc = "read"
    /\ reader.seen # None
    /\ Len(recent_stats) >= 2

\* The update thread of capacity 3 and batch size 2 has published its fifth sample.
FifthSamplePublished ==
    /\ config.history_size = 3
    /\ config.consolidation_limit = 2
    /\ Len(sampled) = 5
    /\ pc \in {"publish_unlock", "sleep", "sample"}

\* C11: with capacity 3 and batch size 2, once the fifth raw sample has been
\* published the history holds exactly three snapshots: the consolidation of
\* samples 1-2, the consolidation of samples 3-4, and the raw fifth sample,
\* which is the latest.
C11_EndToEnd ==
    FifthSamplePublished
    => /\ fault = None
       /\ history.stats = <<consolidated(SubSeq(sampled, 1, 2)),
                            consolidated(SubSeq(sampled, 3, 4)),
                            sampled[5]>>
       /\ get_most_recent_stats(history) = Ret(Some(sampled[5]))

C11_Witness ==
    /\ FifthSamplePublished
    /\ Len(history.stats) = 3
    /\ history.stats[1] = consolidated(SubSeq(sampled, 1, 2))
    /\ history.stats[1] # sampled[2]
    /\ history.stats[3] = sampled[5]
    /\ history.most_recent_index = 2

(***************************************************************************)
(* Properties of consolidate_all_stats (specification SpecConsolidate).    *)
(* The batch is recent_stats; the call has returned once pc has moved on.  *)
(***************************************************************************)
Returned == pc # "consolidate" /\ IsSome(consolidated_stats)
Result == Unwrap(consolidated_stats)

\* The averaged fields: those kept as f32, and the counts that are rounded.
FloatFields ==
    {"one_minute", "five_minutes", "fifteen_minutes", "aggregate_load_percent",
     "temp_celsius"}
SocketFields ==
    {"tcp_in_use", "tcp_orphaned", "udp_in_use", "tcp6_in_use", "udp6_in_use"}

\* Option of the value a snapshot has for an averaged field, as a rational.
Reading(stats, f) ==
    CASE f \in {"one_minute", "five_minutes", "fifteen_minutes"} ->
             IF IsSome(stats.load_averages)
             THEN Some(Unwrap(stats.load_averages)[f])
             ELSE None
      [] f \in SocketFields ->
             IF IsSome(stats.sockets) THEN Some(F32(Unwrap(stats.sockets)[f])) ELSE None
      [] f = "used_mb" ->
             IF IsSome(stats.memory) THEN Some(F32(Unwrap(stats.memory).used_mb)) ELSE None
      [] OTHER -> stats[f]

\* The values of field f in the snapshots of the batch that have it, in order.
RECURSIVE Readings(_, _)
Readings(batch, f) ==
    IF batch = <<>> THEN <<>> ELSE Reading(Head(batch), f) \o Readings(Tail(batch), f)

RECURSIVE SumOf(_)
SumOf(values) ==
    IF values = <<>> THEN F32(0) ELSE RatAdd(Head(values), SumOf(Tail(values)))
Mean(values) == RatDivInt(SumOf(values), Len(values))

\* The integer i is a nearest integer of the rational x.
IsNearest(i, x) == 2 * Abs(i * x[2] - x[1]) <= x[2]

\* C12: each averaged field of the consolidated snapshot is the mean over only
\* the snapshots of the batch that have the field: an absent snapshot changes
\* neither the running mean nor the divisor, wherever it stands in the batch.
\* Stated for the fields kept as f32; the rounded counts go through the same
\* updated_average.
C12_MeanOverPresent ==
    Returned
    => \A f \in FloatFields :
           Readings(recent_stats, f) # <<>>
           => Reading(Result, f) = Some(Mean(Readings(recent_stats, f)))

C14_SocketsRoundedMean ==
    Returned
    => \A f \in SocketFields :
           Readings(recent_stats, f) # <<>>
           => IsNearest(Unwrap(Result.sockets)[f], Mean(Readings(recent_stats, f)))

\* C15: when only the first snapshot of the batch has a memory reading, the
\* consolidated memory is exactly that reading.
C15_SingleMemoryReading ==
    (/\ Returned
     /\ IsSome(recent_stats[1].memory)
     /\ \A i \in 2..Len(recent_stats) : recent_stats[i].memory = None)
    => Result.memory = recent_stats[1].memory

\* The per-core lists of the batch, and the longest length among them.
CoreLists(batch) == Readings(batch, "per_logical_cpu_load_percent")
Longest(lists) ==
    IF lists = <<>> THEN 0
    ELSE CHOOSE n \in {Len(lists[i]) : i \in 1..Len(lists)} :
             \A i \in 1..Len(lists) : Len(lists[i]) <= n

\* C16: the consolidated per-core list is as long as the longest per-core list
\* of the batch, and when all the lists have one length each of its elements is
\* the mean of the corresponding elements of the lists.
C16_PerCoreElementWise ==
    Returned
    => LET lists == CoreLists(recent_stats)
           out == Unwrap(Result.per_logical_cpu_load_percent)
       IN /\ Len(out) = Longest(lists)
          /\ (lists # <<>> /\ \A i \in 1..Len(lists) : Len(lists[i]) = Len(lists[1]))
             => \A j \in 1..Len(out) :
                    out[j] = Mean([i \in 1..Len(lists) |-> lists[i][j]])

\* C17: the consolidated filesystems, interfaces, uptime, boot timestamp and
\* collection time are those of the last snapshot of the batch, absent ones
\* included.
C17_LastWins ==
    Returned
    => LET last == recent_stats[Len(recent_stats)]
       IN /\ Result.filesystems = last.filesystems
          /\ Result.interfaces = last.interfaces
          /\ Result.uptime_seconds = last.uptime_seconds
          /\ Result.boot_timestamp = last.boot_timestamp
          /\ Result.collection_time = last.collection_time

C17_Witness ==
    /\ Returned
    /\ Len(recent_stats) = 3
    /\ IsSome(recent_stats[1].filesystems)
    /\ IsSome(recent_stats[2].interfaces)
    /\ recent_stats[3].filesystems = None
    /\ Result.filesystems = None
    /\ Result.interfaces = None
    /\ Result.uptime_seconds = None
    /\ Result.collection_time = 3

\* C18: consolidate_all_stats on an empty batch panics and produces no snapshot.
C18_EmptyBatchPanics ==
    (recent_stats = <<>> /\ pc # "consolidate")
    => /\ fault = Some("stats_list must not be empty")
       /\ consolidated_stats = None

C18_Witness ==
    /\ recent_stats = <<>>
    /\ pc = "dead"
    /\ fault = Some("stats_list must not be empty")

(***************************************************************************)
(* Properties of persist_stats (specification SpecPersist).                *)
(***************************************************************************)
Limit == Unwrap(config.persistence).size_limit
Size(file) == IF IsSome(file) THEN FileBytes(Unwrap(file)) ELSE 0
Lines(file) == IF IsSome(file) THEN Unwrap(file) ELSE <<>>

\* The longest line a call of the run can write.
MaxLineBytes ==
    LET sizes == {LineBytes(to_string(consolidated(<<AllStats(1, shape)>>))) :
                     shape \in PersistShapes}
    IN CHOOSE n \in sizes : \A k \in sizes : k <= n

\* C19: a call renames current to old, replacing old, exactly when current
\* exists and its size before the write is at least half the limit (integer
\* division, equality included), and then writes the snapshot as the only line
\* of a fresh current; otherwise it appends the line to current and leaves old
\* untouched.
C19_Rotation ==
    [][Called("persist_stats")
        => LET rotate == IsSome(dir.current) /\ Size(dir.current) >= Limit \div 2
               line == to_string(Arg)
           IN /\ dir'.old # dir.old => rotate
              /\ last_op'.result = "ok"
                 => IF rotate
                    THEN /\ dir'.old = dir.current
                         /\ dir'.current = Some(<<line>>)
                    ELSE /\ dir'.old = dir.old
                         /\ dir'.current = Some(Append(Lines(dir.current), line))]_vars

C19_Witness ==
    /\ last_op.op = "persist_stats"
    /\ last_op.result = "ok"
    /\ Limit \div 2 > 0
    /\ IsSome(dir.old)
    /\ Size(dir.old) = Limit \div 2
    /\ Len(Lines(dir.current)) = 1

\* C20: after any calls with size limit L whose lines are at most m bytes,
\* neither file is larger than L/2 + m bytes, the two together are at most
\* L + 2m bytes, and the directory holds no file but the two.
C20_SizeBound ==
    /\ Size(dir.current) <= Limit \div 2 + MaxLineBytes
    /\ Size(dir.old) <= Limit \div 2 + MaxLineBytes
    /\ Size(dir.current) + Size(dir.old) <= Limit + 2 * MaxLineBytes
    /\ dir.others = {}

C20_Witness ==
    /\ Limit \div 2 > 0
    /\ Size(dir.current) > Limit \div 2
    /\ Size(dir.old) > Limit \div 2
    /\ Size(dir.current) + Size(dir.old) > Limit

(***************************************************************************)
(* Properties of load_from (specification SpecLoad).  The call has been    *)
(* made once origin is no longer "loading".                                *)
(***************************************************************************)
AllLines(d) == Lines(d.old) \o Lines(d.current)
Malformed(line) == "garbage" \in DOMAIN line
WellFormed(d) == \A i \in 1..Len(AllLines(d)) : ~Malformed(AllLines(d)[i])

\* C21: load_from on a directory of n >= 1 well-formed lines returns a history
\* that stores the old lines followed by the current lines in file order, has
\* capacity n and most_recent_index n - 1, so that get_most_recent_stats is the
\* last line of current, or of old when current is missing or empty.
C21_LoadOrder ==
    (origin # "loading" /\ WellFormed(dir) /\ Len(AllLines(dir)) >= 1)
    => LET n == Len(AllLines(dir))
       IN /\ origin = "load"
          /\ history.max_size = n
          /\ history.most_recent_index = n - 1
          /\ Len(history.stats) = n
          /\ \A i \in 1..n : to_string(history.stats[i]) = AllLines(dir)[i]
          /\ get_most_recent_stats(history) = Ret(Some(history.stats[n]))

C21_Witness ==
    /\ origin = "load"
    /\ Len(Lines(dir.old)) = 2
    /\ Len(Lines(dir.current)) = 1
    /\ history.max_size = 3
    /\ to_string(Unwrap(get_most_recent_stats(history).ret)) = dir.current[1][1]

\* C23: load_from on a directory with neither file succeeds and returns an
\* empty history of capacity 1; so it does when the files exist and hold no
\* line.
C23_LoadNothing ==
    (origin # "loading" /\ AllLines(dir) = <<>>)
    => /\ origin = "load"
       /\ last_op.result = "ok"
       /\ history = [max_size |-> 1, stats |-> <<>>, most_recent_index |-> 0]
       /\ get_most_recent_stats(history) = Ret(None)

C23_Witness ==
    /\ origin = "load"
    /\ dir.old = Some(<<>>)
    /\ dir.current = Some(<<>>)
    /\ history.max_size = 1
    /\ history.stats = <<>>

\* C24: if any line of old or current is malformed, load_from returns an error
\* and no history: the well-formed lines before or after it are not returned.
C24_MalformedLineFailsLoad ==
    (origin # "loading" /\ ~WellFormed(dir))
    => /\ origin = "failed"
       /\ last_op.result = "deserialize"
       /\ history.stats = <<>>

C24_Witness ==
    /\ origin = "failed"
    /\ Len(Lines(dir.old)) = 2
    /\ ~Malformed(dir.old[1][1])
    /\ Malformed(dir.old[1][2])
    /\ Len(Lines(dir.current)) = 1
    /\ ~Malformed(dir.current[1][1])
    /\ history.stats = <<>>

(***************************************************************************)
(* Appending and loading again (specification SpecPersist)                 *)
(***************************************************************************)
\* Every line appended so far is still on disk: no rotation has discarded one.
NothingDiscarded == AllLines(dir) = [i \in 1..Len(appended) |-> to_string(appended[i])]

\* C22: when s1..sn have been appended to an initially empty directory, no
\* rotation has discarded a line and the directory is then loaded, iterating
\* the loaded history yields exactly s1..sn in that order, field for field,
\* and get_most_recent_stats returns sn.
C22_RoundTrip ==
    (origin = "load" /\ NothingDiscarded /\ appended # <<>>)
    => /\ collect(history) = Ret(appended)
       /\ get_most_recent_stats(history) = Ret(Some(appended[Len(appended)]))

\* The part of the round trip that does not go through the iterator.
C22_StoredRoundTrip ==
    (origin = "load" /\ NothingDiscarded /\ appended # <<>>)
    => /\ history.stats = appended
       /\ get_most_recent_stats(history) = Ret(Some(appended[Len(appended)]))

(***************************************************************************)
(* Properties of the update thread (specification SpecLoop)                *)
(***************************************************************************)
\* The update thread leaves the program point `at` in this step.
Leaves(at) == pc = at /\ pc' # at

\* The append of the current cycle was attempted and failed.
AppendFailed == last_op.op = "persist_stats" /\ last_op.result # "ok"

\* C25: a failing append comes back to the loop as an error value: the thread
\* does not panic and no success is recorded.  The loop goes on to that cycle's
\* in-memory update, which writes the consolidated and then the raw snapshot,
\* and keeps cycling; every append, after a failure or not, is persist_stats
\* applied to the directory as it is then.
C25_FailedAppendIsSurvived ==
    [][/\ Leaves("persist")
          => /\ pc' = "flush_lock"
             /\ fault' = None
             /\ UNCHANGED <<history, recent_stats, new_stats, consolidated_stats, lock>>
             /\ \E io \in IoOutcomes :
                    LET r == persist_stats(Unwrap(consolidated_stats), dir,
                                           Unwrap(config.persistence).size_limit, io)
                    IN /\ dir' = r.dir
                       /\ last_op'.result = IF IsErr(r) THEN r.error ELSE "ok"
                       /\ IsErr(r) => Len(AllLines(dir')) <= Len(AllLines(dir))
       /\ (AppendFailed /\ Leaves("flush_update"))
          => /\ pc' = "flush_push"
             /\ get_most_recent_stats(history') = Ret(consolidated_stats)
       /\ (AppendFailed /\ Leaves("flush_push"))
          => /\ pc' = "flush_unlock"
             /\ get_most_recent_stats(history') = Ret(new_stats)
       /\ (AppendFailed /\ Leaves("flush_unlock")) => pc' = "sleep"
       /\ (AppendFailed /\ Leaves("sleep")) => pc' = "sample"
      ]_vars

\* The first cycle's append failed and its raw snapshot was published all the
\* same; the second cycle's append has just succeeded.
C25_Witness ==
    /\ pc = "flush_lock"
    /\ last_op.op = "persist_stats"
    /\ last_op.result = "ok"
    /\ Len(appended) = 1
    /\ appended[1].collection_time = 2 * config.consolidation_limit
    /\ Len(sampled) = 2 * config.consolidation_limit
    /\ get_most_recent_stats(history) = Ret(Some(sampled[Len(sampled) - 1]))

(***************************************************************************)
(* Readers (specification Spec)                                            *)
(***************************************************************************)
\* The first n items of an iteration of the history started from `it`.
RECURSIVE first_items(_, _, _)
first_items(self, it, n) ==
    IF n = 0
    THEN <<>>
    ELSE LET r == next(self, it)
         IN IF IsPanic(r) \/ r.item = None
            THEN <<>>
            ELSE r.item \o first_items(self, r.it, n - 1)

\* C26: the reader operations never modify the history: starting, advancing
\* and dropping an iteration (complete or partial) and building the dashboard,
\* which reads the most recent snapshot and walks the whole history, leave the
\* length, most_recent_index and every slot as they were; only push and
\* update_most_recent_stats write.  Iteration can be restarted: what a live
\* iterator has yielded is what a new iterator on the history yields first.
C26_ReadersDoNotWrite ==
    /\ [][last_op' = last_op => history' = history]_vars
    /\ [](iter # None
          => yielded = first_items(history, into_iter(history), Len(yielded)))

\* A partial walk of a history of three snapshots: two of them yielded, the
\* iterator not done, the history as the pushes left it.
C26_Witness ==
    /\ iter # None
    /\ ~Unwrap(iter).done
    /\ Len(yielded) = 2
    /\ Len(history.stats) = 3
    /\ history.max_size = 4
    /\ history.most_recent_index = 2
    /\ history.stats = pushes

\* The claim C27 as the specification words it: at the flush the consolidated
\* snapshot is pushed into the history as a new entry.
C27_TwoPushes ==
    [][Leaves("flush_update")
       => history' = push(history, Unwrap(consolidated_stats))]_vars

\* C27: when the batch reaches the consolidation threshold, the update thread
\* consolidates the batch, attempts to persist the consolidated snapshot if
\* persistence is configured, and then, holding the lock once for both writes,
\* replaces the latest (in-progress) entry of the history by the consolidated
\* snapshot, which adds an entry only when the history is empty, and pushes
\* the most recent raw snapshot as a new in-progress entry; then it clears the
\* batch.
C27_FlushUpdatesThenPushes ==
    [][/\ (pc = "sample" /\ pc' = "consolidate")
          => Len(recent_stats') >= config.consolidation_limit
       /\ Leaves("consolidate")
          => /\ consolidated_stats' = Some(consolidated(recent_stats))
             /\ pc' = IF IsSome(config.persistence) THEN "persist" ELSE "flush_lock"
             /\ UNCHANGED <<history, dir>>
       /\ Leaves("persist")
          => /\ pc' = "flush_lock"
             /\ last_op'.stats = consolidated_stats
             /\ UNCHANGED history
       /\ Leaves("flush_lock")
          => pc' = "flush_update" /\ lock'.owner = "updater" /\ UNCHANGED history
       /\ Leaves("flush_update")
          => /\ pc' = "flush_push"
             /\ lock'.owner = "updater"
             /\ Len(history'.stats) = IF history.stats = <<>> THEN 1 ELSE Len(history.stats)
             /\ history.stats # <<>>
                => history'.most_recent_index = history.most_recent_index
             /\ At(history'.stats, history'.most_recent_index) = Unwrap(consolidated_stats)
             /\ \A i \in 1..Len(history.stats) :
                    i # history'.most_recent_index + 1
                    => history'.stats[i] = history.stats[i]
       /\ Leaves("flush_push")
          => /\ pc' = "flush_unlock"
             /\ lock'.owner = "updater"
             /\ new_stats = Some(recent_stats[Len(recent_stats)])
             /\ history' = push(history, Unwrap(new_stats))
       /\ Leaves("flush_unlock")
          => /\ pc' = "sleep"
             /\ lock'.owner = "none"
             /\ recent_stats' = <<>>
             /\ UNCHANGED history
      ]_vars

\* The second flush of a batch size of 2 into a history of capacity 3: the
\* first consolidation, the second one in the slot the third sample was
\* published in, and the fourth sample pushed after it.
C27_Witness ==
    /\ pc = "flush_unlock"
    /\ lock.owner = "updater"
    /\ config.consolidation_limit = 2
    /\ history.max_size = 3
    /\ Len(history.stats) = 3
    /\ history.stats[1] = consolidated(SubSeq(sampled, 1, 2))
    /\ history.stats[2] = Unwrap(consolidated_stats)
    /\ history.stats[3] = sampled[4]
    /\ new_stats = Some(sampled[4])
    /\ history.stats[2] # history.stats[3]
    /\ last_op.op = "persist_stats"

\* The update thread is in the else branch of the loop.
Publishing == pc \in {"publish_lock", "publish", "publish_unlock"}

\* C28: when the batch, with the new sample added, is still smaller than the
\* consolidation threshold, the update thread publishes the raw sample with
\* update_most_recent_stats only: nothing is consolidated, nothing is
\* persisted, and the history keeps its length unless it was empty.
C28_PublishOnly ==
    [][/\ (pc = "sample" /\ pc' # pc
             /\ Len(recent_stats') < config.consolidation_limit)
          => /\ pc' = "publish_lock"
             /\ new_stats' = Some(recent_stats'[Len(recent_stats')])
             /\ UNCHANGED <<history, dir, consolidated_stats>>
       /\ Publishing
          => /\ consolidated_stats = None /\ consolidated_stats' = None
             /\ UNCHANGED <<dir, appended, recent_stats>>
             /\ pc' \in {"publish_lock", "publish", "publish_unlock", "sleep"}
       /\ Leaves("publish_lock")
          => pc' = "publish" /\ lock'.owner = "updater" /\ UNCHANGED history
       /\ Leaves("publish")
          => /\ pc' = "publish_unlock"
             /\ Len(history'.stats) = IF history.stats = <<>> THEN 1 ELSE Len(history.stats)
             /\ history.stats # <<>>
                => history'.most_recent_index = history.most_recent_index
             /\ get_most_recent_stats(history') = Ret(new_stats)
             /\ \A i \in 1..Len(history.stats) :
                    i # history'.most_recent_index + 1
                    => history'.stats[i] = history.stats[i]
       /\ Leaves("publish_unlock")
          => pc' = "sleep" /\ lock'.owner = "none" /\ UNCHANGED history
      ]_vars

\* The third sample of a batch size of 2 has been published over the raw
\* snapshot the first flush pushed: the history still has two entries.
C28_Witness ==
    /\ pc = "publish_unlock"
    /\ config.consolidation_limit = 2
    /\ history.max_size = 3
    /\ Len(sampled) = 3
    /\ recent_stats = <<sampled[3]>>
    /\ history.stats = <<consolidated(SubSeq(sampled, 1, 2)), sampled[3]>>
    /\ sampled[3] # sampled[2]
    /\ consolidated_stats = None
    /\ Len(AllLines(dir)) = 1

(***************************************************************************)
(* Progress of readers and of the update thread (specification SpecLoop)   *)
(***************************************************************************)
\* C29: every reader operation on the shared history (get_most_recent_stats,
\* or a full iteration made while holding the lock) ends and the reader
\* releases the lock, so that the update thread is never blocked forever on the
\* lock.  Stated so that a finite run refutes it: a reader that holds the lock
\* always has its next step to take, the return of its operation or the
\* release of the lock, and the update thread never waits for a lock whose
\* holder has no step left.
C29_ReadersReleaseTheLock ==
    /\ lock.owner = "reader" => ENABLED ReaderStep
    /\ (pc \in {"flush_lock", "publish_lock"} /\ lock.owner # "none")
       => ENABLED ReaderStep

(***************************************************************************)
(* What a reader can see (specification SpecLoop)                          *)
(***************************************************************************)
\* The number of the last sample the update thread has finished publishing:
\* the sample just taken has not been written while the thread consolidates,
\* persists or waits for the lock.
LastPublished ==
    IF pc \in {"consolidate", "persist", "flush_lock", "publish_lock"}
    THEN Len(sampled) - 1
    ELSE Len(sampled)

\* C30: whenever the update thread does not hold the lock, so that a reader
\* can acquire it, and something has been published, the latest slot holds the
\* raw snapshot most recently published.  The two writes of the flush are made
\* under one lock acquisition: no reader sees the consolidated snapshot in the
\* latest slot.
C30_LatestIsRaw ==
    (lock.owner # "updater" /\ history.stats # <<>>)
    => /\ LastPublished >= 1
       /\ get_most_recent_stats(history) = Ret(Some(sampled[LastPublished]))

\* The lock is free after a flush whose consolidated snapshot differs from the
\* raw one: the consolidation is in the history, before the latest slot.
C30_Witness ==
    /\ lock.owner = "none"
    /\ pc = "sleep"
    /\ IsSome(consolidated_stats)
    /\ consolidated_stats # new_stats
    /\ Len(history.stats) = 2
    /\ history.stats[1] = Unwrap(consolidated_stats)
    /\ history.stats[2] = Unwrap(new_stats)
    /\ history.most_recent_index = 1

(***************************************************************************)
(* The batching discipline of the update thread (specification SpecLoop)   *)
(***************************************************************************)
\* The samples taken since the last flush, as the stream of samples has them.
OpenBatch(n) == SubSeq(sampled, Len(sampled) - n + 1, Len(sampled))

\* C31: for every consolidation threshold T the batch holds between 0 and
\* T - 1 snapshots at the end of every cycle; consolidate_all_stats is called
\* with exactly T snapshots, never with an empty batch, and these are the T
\* samples taken since the previous call: consecutive batches partition the
\* stream of samples, so each sample goes into exactly one consolidated
\* snapshot.
C31_BatchesPartitionTheSamples ==
    LET T == config.consolidation_limit
    IN /\ pc \in {"sleep", "sample"}
          => /\ Len(recent_stats) = Len(sampled) % T
             /\ Len(recent_stats) <= T - 1
             /\ recent_stats = OpenBatch(Len(recent_stats))
       /\ pc = "consolidate"
          => /\ Len(recent_stats) = T
             /\ recent_stats # <<>>
             /\ Len(sampled) % T = 0
             /\ recent_stats = OpenBatch(T)
       /\ IsSome(consolidated_stats) => Len(sampled) % T = 0
       /\ fault # Some("stats_list must not be empty")

\* The second batch of a batch size of 2 is about to be consolidated: it is
\* the third and the fourth sample.
C31_Witness ==
    /\ pc = "consolidate"
    /\ config.consolidation_limit = 2
    /\ Len(sampled) = 4
    /\ recent_stats = <<sampled[3], sampled[4]>>
    /\ sampled[3] # sampled[4]

\* The snapshot is the consolidation of one complete batch of T samples of
\* the stream: the batch that ends with the sample taken at its
\* collection_time.
IsConsolidation(stats, stream, T) ==
    LET t == stats.collection_time
    IN /\ t % T = 0
       /\ t \in 1..Len(stream)
       /\ stats = consolidated(SubSeq(stream, t - T + 1, t))

\* C32: at the end of every cycle of the update thread, for every capacity and
\* threshold, the latest slot of the history holds the raw sample of the cycle
\* and every other slot holds a consolidated snapshot: no raw snapshot of an
\* earlier cycle is left in an older slot.
C32_OnlyLatestIsRaw ==
    [][(pc # "sleep" /\ pc' = "sleep")
       => /\ At(history'.stats, history'.most_recent_index) = sampled'[Len(sampled')]
          /\ \A i \in 1..Len(history'.stats) :
                 i # history'.most_recent_index + 1
                 => IsConsolidation(history'.stats[i], sampled',
                                    config.consolidation_limit)]_vars

\* Four samples into a history of capacity 3 with batches of 2: two
\* consolidations and the fourth sample, which differs from the consolidation
\* it went into.
C32_Witness ==
    /\ pc = "sleep"
    /\ config.consolidation_limit = 2
    /\ history.max_size = 3
    /\ Len(sampled) = 4
    /\ Len(history.stats) = 3
    /\ history.most_recent_index = 2
    /\ history.stats[3] = sampled[4]
    /\ history.stats[2] = consolidated(<<sampled[3], sampled[4]>>)
    /\ history.stats[2] # sampled[4]
    /\ history.stats[2] # sampled[3]

(***************************************************************************)
(* The shape of the history (specification Spec)                           *)
(***************************************************************************)
\* C33: in every state reached through new, load_from, push and
\* update_most_recent_stats the stored length does not exceed the capacity,
\* the capacity never changes, and most_recent_index is smaller than the
\* stored length whenever the history is not empty; so push,
\* update_most_recent_stats and get_most_recent_stats never index out of
\* range.
C33_IndicesInRange ==
    /\ [](/\ history.max_size >= 1
          /\ Len(history.stats) <= history.max_size
          /\ history.stats # <<>> => history.most_recent_index < Len(history.stats)
          /\ ~IsPanic(get_most_recent_stats(history)))
    /\ [][history'.max_size = history.max_size]_vars
    /\ [][(Called("push") \/ Called("update_most_recent_stats")) => fault' = None]_vars

\* A history loaded from three lines, then written to: full, with the latest
\* index wrapped back from the last slot.
C33_Witness ==
    /\ origin = "load"
    /\ history.max_size = 3
    /\ Len(history.stats) = 3
    /\ Len(pushes) = 2
    /\ updates = 1
    /\ history.most_recent_index < 2
    /\ fault = None

\* C34: iterating a history into which nothing has been pushed (created by new
\* with any capacity, or loaded from a directory without lines) yields the
\* empty sequence and does not fault.
C34_EmptyIteration ==
    (history.stats = <<>> /\ iter # None) => Yields(<<>>)

(***************************************************************************)
(* Further properties of consolidate_all_stats (specification              *)
(* SpecConsolidate)                                                        *)
(***************************************************************************)
\* The optional fields of a snapshot that consolidate_all_stats averages.
AveragedFields ==
    {"load_averages", "per_logical_cpu_load_percent", "aggregate_load_percent",
     "temp_celsius", "memory", "sockets"}

\* C35: an optional averaged field (load averages, per-core loads, aggregate
\* load, temperature, memory, socket usage) that no snapshot of the batch has
\* is absent from the consolidated snapshot too: no value such as 0 is made up
\* for a metric no input reported.
C35_AbsentStaysAbsent ==
    Returned
    => \A f \in AveragedFields :
           (\A i \in 1..Len(recent_stats) : recent_stats[i][f] = None)
           => Result[f] = None

(***************************************************************************)
(* What the two files hold (specification SpecPersist)                     *)
(***************************************************************************)
IsSuffix(a, b) == Len(a) <= Len(b) /\ a = SubSeq(b, Len(b) - Len(a) + 1, Len(b))

\* The lines of all the snapshots appended so far, in the order of the appends.
AppendedLines == [i \in 1..Len(appended) |-> to_string(appended[i])]

\* C36: after any sequence of successful appends to a directory that was
\* empty at first, the lines of "old" followed by the lines of "current" are a
\* contiguous suffix, in the order of the appends, of all the snapshots
\* appended so far, and end with the one appended last: rotation never
\* reorders or duplicates a snapshot and drops none from the middle.  (clock
\* counts the appends attempted, appended those that succeeded.)
C36_FilesHoldASuffix ==
    /\ IsSuffix(AllLines(dir), AppendedLines)
    /\ (Len(appended) = clock /\ appended # <<>>)
       => AllLines(dir)[Len(AllLines(dir))] = to_string(appended[Len(appended)])

\* Four appends, all successful, of which the files hold the last three: one
\* rotation has discarded the first.
C36_Witness ==
    /\ clock = 4
    /\ Len(appended) = 4
    /\ Len(Lines(dir.old)) = 2
    /\ Len(Lines(dir.current)) = 1
    /\ AllLines(dir) = SubSeq(AppendedLines, 2, 4)

\* The snapshots of the batch that have a memory reading.
WithMemory(batch) == {i \in 1..Len(batch) : IsSome(batch[i].memory)}

\* The largest total_mb among the memory readings of the batch.
MaxTotal(batch) ==
    CHOOSE t \in {Unwrap(batch[i].memory).total_mb : i \in WithMemory(batch)} :
        \A i \in WithMemory(batch) : Unwrap(batch[i].memory).total_mb <= t

\* The total-memory half of C37.
C37_TotalIsMaximum ==
    (Returned /\ WithMemory(recent_stats) # {})
    => Unwrap(Result.memory).total_mb = MaxTotal(recent_stats)

\* C37: the consolidated memory total is the largest total_mb among the
\* snapshots of the batch that have a memory reading (it is not averaged), and
\* the consolidated used_mb is the mean of their used_mb values, rounded to
\* the nearest integer.
C37_MemoryTotalMaxUsedMean ==
    (Returned /\ WithMemory(recent_stats) # {})
    => /\ IsSome(Result.memory)
       /\ Unwrap(Result.memory).total_mb = MaxTotal(recent_stats)
       /\ IsNearest(Unwrap(Result.memory).used_mb,
                    Mean(Readings(recent_stats, "used_mb")))
====
